---------------------------- MODULE Spec2Model ----------------------------
(***************************************************************************)
(* A model of the MPEG audio frame-header decoder (MpegFrameHdr) and of    *)
(* the two-phase stream scan (Mp3AudioData::Load / ParseFrames).           *)
(*                                                                         *)
(* A 32-bit header word is held as two 16-bit halves [hi, lo], because a   *)
(* word whose top bit is set (every header with a frame sync) does not fit *)
(* a model-checker integer.  Shifts and masks are carried out on the       *)
(* halves exactly as the 32-bit operations of the source.                  *)
(*                                                                         *)
(* durationSec_ is a double in the source.  The model holds the real       *)
(* number it approximates, as an exact count of 1/TicksPerSecond seconds   *)
(* (every sampling rate of kSamplingRates divides TicksPerSecond).         *)
(* Floating-point rounding of the accumulation is outside the model.       *)
(***************************************************************************)
EXTENDS Integers, Sequences, FiniteSets, TLC

(***************************************************************************)
(* 32-bit unsigned arithmetic on halves                                    *)
(***************************************************************************)
Half == 2^16

Word(hi, lo) == [hi |-> hi, lo |-> lo]

\* uint32_t value v < 2^31 as a word
ToWord(v) == Word(v \div Half, v % Half)

RECURSIVE BitAnd(_, _)
BitAnd(a, b) ==
  IF a = 0 \/ b = 0 THEN 0
  ELSE (a % 2) * (b % 2) + 2 * BitAnd(a \div 2, b \div 2)

\* w & m
And32(w, m) == Word(BitAnd(w.hi, m.hi), BitAnd(w.lo, m.lo))

\* w << s, 0 <= s < 32, truncated to 32 bits
Shl32(w, s) ==
  IF s >= 16
  THEN Word((w.lo * 2^(s - 16)) % Half, 0)
  ELSE Word(((w.hi * 2^s) % Half) + ((w.lo * 2^s) \div Half), (w.lo * 2^s) % Half)

\* w >> s, 0 <= s < 32
Shr32(w, s) ==
  IF s >= 16
  THEN Word(0, w.hi \div 2^(s - 16))
  ELSE Word(w.hi \div 2^s, (w.lo \div 2^s) + (w.hi % 2^s) * 2^(16 - s))

\* the value of a word known to be below 2^31
ToNat(w) == w.hi * Half + w.lo

\* a * b modulo 2^32 for a < 2^15, b < 2^31 (the 32-bit unsigned product)
Mul32(a, b) ==
  LET p0 == a * (b % Half)
      p1 == a * (b \div Half) + p0 \div Half
  IN  ((p1 % Half) * Half) + (p0 % Half)

(***************************************************************************)
(* MpegFrameHdr.cpp: field layout and tables                               *)
(***************************************************************************)
MpegField == {"FrameSync", "VersionIndex", "LayerIndex", "ProtectionBit",
              "BitrateIndex", "SamplingRateFreqIndex", "PaddingBit",
              "ChannelMode", "ModeExtension", "Copyright", "Original",
              "Emphasis"}

FieldInfo(o, c, m) == [bitOffset |-> o, bitCount |-> c, bitMask |-> m]

kMpegFieldInfo ==
  [f \in MpegField |->
    CASE f = "FrameSync"             -> FieldInfo(32, 11, 2047)
      [] f = "VersionIndex"          -> FieldInfo(21, 2, 3)
      [] f = "LayerIndex"            -> FieldInfo(19, 2, 3)
      [] f = "ProtectionBit"         -> FieldInfo(17, 1, 1)
      [] f = "BitrateIndex"          -> FieldInfo(16, 4, 15)
      [] f = "SamplingRateFreqIndex" -> FieldInfo(12, 2, 3)
      [] f = "PaddingBit"            -> FieldInfo(10, 1, 1)
      [] f = "ChannelMode"           -> FieldInfo(8, 2, 3)
      [] f = "ModeExtension"         -> FieldInfo(6, 2, 3)
      [] f = "Copyright"             -> FieldInfo(4, 1, 1)
      [] f = "Original"              -> FieldInfo(3, 1, 1)
      [] f = "Emphasis"              -> FieldInfo(2, 2, 3)]

\* tables are indexed from 0 in the source, from 1 here
kMpegVersion == <<"V2_5", "None", "V2", "V1">>

kMpegLayer == <<"None", "LayerIII", "LayerII", "LayerI">>

kMpegChannelMode == <<"Stereo", "JointStereo", "DualChannel", "SingleChannel">>

kGoodFrameSync == 2047

kVersionIndexReserved == 1

kLayerIndexReserved == 0

kSamplingRateFreqIndexReserved == 3

kBitrateIndexReserved == <<0, 15>>

kKilobitsPerSecond == 1000

CHAR_BIT == 8

\* Indices: VersionIndex, SamplingRateFreqIndex
kSamplingRates ==
  << <<11025, 12000,  8000>>,
     <<    0,     0,     0>>,
     <<22050, 24000, 16000>>,
     <<44100, 48000, 32000>> >>

\* Indices: VersionIndex, LayerIndex
kSamplesPerFrame ==
  << <<0,  576, 1152, 384>>,
     <<0,    0,    0,   0>>,
     <<0,  576, 1152, 384>>,
     <<0, 1152, 1152, 384>> >>

\* Index: LayerIndex
kSlotSizes == <<0, 1, 1, 4>>

\* Indices: BitrateIndex, VersionIndex, LayerIndex
kBitrates ==
  << << <<0,0,0,0>>,       <<0,0,0,0>>, <<0,0,0,0>>,       <<0,0,0,0>>       >>,
     << <<0,  8,  8, 32>>, <<0,0,0,0>>, <<0,  8,  8, 32>>, <<0, 32, 32, 32>> >>,
     << <<0, 16, 16, 48>>, <<0,0,0,0>>, <<0, 16, 16, 48>>, <<0, 40, 48, 64>> >>,
     << <<0, 24, 24, 56>>, <<0,0,0,0>>, <<0, 24, 24, 56>>, <<0, 48, 56, 96>> >>,
     << <<0, 32, 32, 64>>, <<0,0,0,0>>, <<0, 32, 32, 64>>, <<0, 56, 64,128>> >>,
     << <<0, 40, 40, 80>>, <<0,0,0,0>>, <<0, 40, 40, 80>>, <<0, 64, 80,160>> >>,
     << <<0, 48, 48, 96>>, <<0,0,0,0>>, <<0, 48, 48, 96>>, <<0, 80, 96,192>> >>,
     << <<0, 56, 56,112>>, <<0,0,0,0>>, <<0, 56, 56,112>>, <<0, 96,112,224>> >>,
     << <<0, 64, 64,128>>, <<0,0,0,0>>, <<0, 64, 64,128>>, <<0,112,128,256>> >>,
     << <<0, 80, 80,144>>, <<0,0,0,0>>, <<0, 80, 80,144>>, <<0,128,160,288>> >>,
     << <<0, 96, 96,160>>, <<0,0,0,0>>, <<0, 96, 96,160>>, <<0,160,192,320>> >>,
     << <<0,112,112,176>>, <<0,0,0,0>>, <<0,112,112,176>>, <<0,192,224,352>> >>,
     << <<0,128,128,192>>, <<0,0,0,0>>, <<0,128,128,192>>, <<0,224,256,384>> >>,
     << <<0,144,144,224>>, <<0,0,0,0>>, <<0,144,144,224>>, <<0,256,320,416>> >>,
     << <<0,160,160,256>>, <<0,0,0,0>>, <<0,160,160,256>>, <<0,320,384,448>> >> >>

(***************************************************************************)
(* MpegFrameHdr                                                            *)
(***************************************************************************)
\* MpegFrameHdr() = default : mpegHeader = 0
DefaultHdr == Word(0, 0)

\* MpegFrameHdr( const uint8_t* ): the four bytes at the pointer, first byte
\* most significant
MakeHdr(b0, b1, b2, b3) == Word(b0 * 256 + b1, b2 * 256 + b3)

ExtractBits(h, mpegField) ==
  LET fi    == kMpegFieldInfo[mpegField]
      shift == fi.bitOffset - fi.bitCount
      mask  == Shl32(ToWord(fi.bitMask), shift)
  IN  ToNat(Shr32(And32(h, mask), shift))

\* IsValid with the frame sync comparison left out.
IsValidNoSync(h) ==
  /\ ExtractBits(h, "VersionIndex") # kVersionIndexReserved
  /\ ExtractBits(h, "LayerIndex") # kLayerIndexReserved
  /\ ExtractBits(h, "BitrateIndex") # kBitrateIndexReserved[1]
  /\ ExtractBits(h, "BitrateIndex") # kBitrateIndexReserved[2]
  /\ ExtractBits(h, "SamplingRateFreqIndex") # kSamplingRateFreqIndexReserved

IsValid(h) ==
  /\ ExtractBits(h, "FrameSync") = kGoodFrameSync
  /\ ExtractBits(h, "VersionIndex") # kVersionIndexReserved
  /\ ExtractBits(h, "LayerIndex") # kLayerIndexReserved
  /\ ExtractBits(h, "BitrateIndex") # kBitrateIndexReserved[1]
  /\ ExtractBits(h, "BitrateIndex") # kBitrateIndexReserved[2]
  /\ ExtractBits(h, "SamplingRateFreqIndex") # kSamplingRateFreqIndexReserved

GetVersion(h) == kMpegVersion[ExtractBits(h, "VersionIndex") + 1]

\* the layer index read as the layer number
GetLayerAscending(h) ==
  <<"None", "LayerI", "LayerII", "LayerIII">>[ExtractBits(h, "LayerIndex") + 1]

GetLayer(h) == kMpegLayer[ExtractBits(h, "LayerIndex") + 1]

GetChannelMode(h) == kMpegChannelMode[ExtractBits(h, "ChannelMode") + 1]

\* bitrateIndex 15 indexes past the end of kBitrates; callers use this on
\* headers that passed IsValid only
GetBitrateKbps(h) ==
  kBitrates[ExtractBits(h, "BitrateIndex") + 1]
           [ExtractBits(h, "VersionIndex") + 1]
           [ExtractBits(h, "LayerIndex") + 1]

\* sampleRateIndex 3 indexes past the end of a row of kSamplingRates
GetSamplingRateHz(h) ==
  kSamplingRates[ExtractBits(h, "VersionIndex") + 1]
                [ExtractBits(h, "SamplingRateFreqIndex") + 1]

GetSampleCount(h) ==
  kSamplesPerFrame[ExtractBits(h, "VersionIndex") + 1]
                  [ExtractBits(h, "LayerIndex") + 1]

HasPaddingBit(h) == ExtractBits(h, "PaddingBit") # 0

ProtectedByCRC(h) == ExtractBits(h, "ProtectionBit") = 1

IsIntensityStereoOn(h) == BitAnd(ExtractBits(h, "ModeExtension"), 1) # 0

IsMSStereoOn(h) == BitAnd(ExtractBits(h, "ModeExtension"), 2) # 0

IsCopyrighted(h) == ExtractBits(h, "Copyright") # 0

IsOriginal(h) == ExtractBits(h, "Original") # 0

GetFrameBytesDivideFirst(h) ==
  LET bitrateIndex    == ExtractBits(h, "BitrateIndex")
      versionIndex    == ExtractBits(h, "VersionIndex")
      layerIndex      == ExtractBits(h, "LayerIndex")
      sampleRateIndex == ExtractBits(h, "SamplingRateFreqIndex")
      slotSize        == kSlotSizes[layerIndex + 1]
      padding         == IF HasPaddingBit(h) THEN 1 ELSE 0
      paddingSize     == slotSize * padding
      samplesPerByte  ==
        (kSamplesPerFrame[versionIndex + 1][layerIndex + 1] \div CHAR_BIT) \div slotSize
      bitRate         ==
        Mul32(kBitrates[bitrateIndex + 1][versionIndex + 1][layerIndex + 1],
              kKilobitsPerSecond)
      samplingRate    == kSamplingRates[versionIndex + 1][sampleRateIndex + 1]
  IN  Mul32(samplesPerByte, bitRate \div samplingRate) + paddingSize

GetFrameBytesPadOneByte(h) ==
  LET bitrateIndex    == ExtractBits(h, "BitrateIndex")
      versionIndex    == ExtractBits(h, "VersionIndex")
      layerIndex      == ExtractBits(h, "LayerIndex")
      sampleRateIndex == ExtractBits(h, "SamplingRateFreqIndex")
      slotSize        == kSlotSizes[layerIndex + 1]
      padding         == IF HasPaddingBit(h) THEN 1 ELSE 0
      samplesPerByte  ==
        (kSamplesPerFrame[versionIndex + 1][layerIndex + 1] \div CHAR_BIT) \div slotSize
      bitRate         ==
        Mul32(kBitrates[bitrateIndex + 1][versionIndex + 1][layerIndex + 1],
              kKilobitsPerSecond)
      samplingRate    == kSamplingRates[versionIndex + 1][sampleRateIndex + 1]
  IN  (Mul32(samplesPerByte, bitRate) \div samplingRate) + padding

\* all operands are uint32_t; the products are taken modulo 2^32
GetFrameBytes(h) ==
  LET bitrateIndex    == ExtractBits(h, "BitrateIndex")
      versionIndex    == ExtractBits(h, "VersionIndex")
      layerIndex      == ExtractBits(h, "LayerIndex")
      sampleRateIndex == ExtractBits(h, "SamplingRateFreqIndex")
      slotSize        == kSlotSizes[layerIndex + 1]
      padding         == IF HasPaddingBit(h) THEN 1 ELSE 0
      paddingSize     == slotSize * padding
      samplesPerByte  ==
        (kSamplesPerFrame[versionIndex + 1][layerIndex + 1] \div CHAR_BIT) \div slotSize
      bitRate         ==
        Mul32(kBitrates[bitrateIndex + 1][versionIndex + 1][layerIndex + 1],
              kKilobitsPerSecond)
      samplingRate    == kSamplingRates[versionIndex + 1][sampleRateIndex + 1]
  IN  (Mul32(samplesPerByte, bitRate) \div samplingRate) + paddingSize

\* the three assertions of GetFrameBytes
FrameBytesAsserts(h) ==
  LET bitrateIndex    == ExtractBits(h, "BitrateIndex")
      versionIndex    == ExtractBits(h, "VersionIndex")
      layerIndex      == ExtractBits(h, "LayerIndex")
      sampleRateIndex == ExtractBits(h, "SamplingRateFreqIndex")
      slotSize        == kSlotSizes[layerIndex + 1]
      samplesPerByte  ==
        (kSamplesPerFrame[versionIndex + 1][layerIndex + 1] \div CHAR_BIT) \div slotSize
      bitRate         ==
        Mul32(kBitrates[bitrateIndex + 1][versionIndex + 1][layerIndex + 1],
              kKilobitsPerSecond)
      samplingRate    == kSamplingRates[versionIndex + 1][sampleRateIndex + 1]
  IN  /\ samplesPerByte > 0
      /\ bitRate > 0
      /\ samplingRate > 0

\* one second, in the unit durations are counted in: the least common
\* multiple of the sampling rates of kSamplingRates
TicksPerSecond == 256 * 9 * 125 * 49

\* samples / freq seconds, exactly
GetFrameDurationInSeconds(h) ==
  GetSampleCount(h) * (TicksPerSecond \div GetSamplingRateHz(h))

(***************************************************************************)
(* Mp3AudioData.cpp: constants                                             *)
(***************************************************************************)
kMpegHdrByte == 255

kMaxSearch512KiB == 512 * 1024

kMaxMpegFrameHeaderSearch == 500 * 1024

kMinMpegFrames == 3

Min(a, b) == IF a < b THEN a ELSE b

(***************************************************************************)
(* Input files.  A file is a sequence of segments; a segment is a few      *)
(* leading bytes followed by a fill byte up to its length.                 *)
(***************************************************************************)
MaxSegs == 3

MaxHint == 1

MaxLoads == 2

\* audio lengths up to this many million milliseconds are estimated
MaxAudioMegaMs == 50

Segment(pre, len, fill) == [pre |-> pre, len |-> len, fill |-> fill]

\* FF FB 14 00: MPEG-1 Layer III, 32 kbps, 48 kHz, no padding, stereo: 96 bytes
\* FF FB 16 00: the same with the padding bit set: 97 bytes
\* FF FF 14 00: MPEG-1 Layer I,   32 kbps, 48 kHz, no padding, stereo: 8 bytes
\* FF FD E8 00: MPEG-1 Layer II, 384 kbps, 32 kHz, no padding: 1728 bytes
\* K is 100 bytes: the Layer II header, then a Layer III header at offset 4
\* Y is 500 KiB of zeros
SegKinds ==
  [ A |-> Segment(<<255, 251, 20, 0>>, 96, 0),
    G |-> Segment(<<255, 251, 20, 0, 255, 251, 20, 0>>, 96, 255),
    B |-> Segment(<<255, 251, 20, 0>>, 4, 0),
    P |-> Segment(<<255, 251, 22, 0>>, 97, 0),
    L |-> Segment(<<255, 255, 20, 0>>, 8, 0),
    K |-> Segment(<<255, 253, 232, 0, 255, 251, 20, 0>>, 100, 0),
    Y |-> Segment(<<0>>, 500 * 1024, 0),
    X |-> Segment(<<255>>, 1, 255),
    Z |-> Segment(<<0>>, 1, 0) ]

FilesOver(kinds) == UNION {[1..n -> kinds] : n \in 0..MaxSegs}

\* the files given to an object that is loaded once
Files == FilesOver(DOMAIN SegKinds \ {"Y"})

\* files longer than kMaxMpegFrameHeaderSearch, and a short one
LongFiles == {<<"Y", "A", "A", "B">>, <<"A", "A", "B">>}

\* the files given to an object that is loaded again and again
ReloadFiles == FilesOver({"A", "B", "Z"})

RECURSIVE FileLength(_)
FileLength(f) ==
  IF f = <<>> THEN 0 ELSE SegKinds[Head(f)].len + FileLength(Tail(f))

\* byte i (from 0) of the file, i < FileLength(f)
RECURSIVE FileByte(_, _)
FileByte(f, i) ==
  LET s == SegKinds[Head(f)]
  IN  IF i >= s.len THEN FileByte(Tail(f), i - s.len)
      ELSE IF i < Len(s.pre) THEN s.pre[i + 1] ELSE s.fill

\* What a read past the end of audioBuffer_ may find in the three bytes that
\* follow a header's first byte: the behaviour is undefined, any of these
OobTails == {<<0, 0, 0>>, <<251, 20, 0>>, <<255, 20, 0>>}

(***************************************************************************)
(* State                                                                   *)
(***************************************************************************)
VARIABLES
  fileBytes,            \* content of the file given to the current Load
  hintArg,              \* fileAudioOffsetHint as the caller passed it
  hint,                 \* fileAudioOffsetHint after normalisation
  audioBufferSize,      \* audioBuffer_.size(); audioBuffer_[i] = file[hint + i]
  firstMpegFrameHdr_,   \* Mp3AudioData::firstMpegFrameHdr_
  durationSec_,         \* Mp3AudioData::durationSec_, in ticks
  frameCount_,          \* Mp3AudioData::frameCount_
  countFrames,          \* Load: countFrames
  pFirstMpegFrame,      \* Load: pFirstMpegFrame as an offset, NullPtr if null
  pRawBuffer,           \* the scan cursor of Load / ParseFrames, as an offset
  pEnd,                 \* the loop bound of Load / ParseFrames, as an offset
  pc,                   \* phase of the scan
  inLoad,               \* a call of Load is in progress
  retval,               \* what the last completed Load returned, "none" before
  fileState,            \* mp3File: "none" (no object), "open", "closed"
  closeTask,            \* the std::async task: "none", "running", "done"
  loads,                \* number of Load calls made
  hdrReadAt,            \* offset of the latest MpegFrameHdr( pRawBuffer )
  lateClose,            \* the async task ran Close() on a destroyed File
  framesCounted,        \* frames the current call of ParseFrames has counted
  reuse,                \* the caller loads the object more than once
  assertsOn,            \* the build keeps assert() (NDEBUG is not defined)
  frameHdr,             \* the MpegFrameHdr of the current loop iteration
  hdrCalls,             \* the accessors called on frameHdr in that iteration
  matchOffsets,         \* offsets of the headers the search has matched
  pcmIn,                \* PcmData::GetEstDataSize: the object and argument
  pcmOut,               \* PcmData::GetEstDataSize: locals and result
  hdrIn,                \* header decoder: the word under test
  hdrOut                \* header decoder: what the accessors returned

scanVars == <<fileBytes, hint, audioBufferSize, firstMpegFrameHdr_,
              durationSec_, frameCount_, countFrames, pFirstMpegFrame,
              pRawBuffer, pEnd, pc, inLoad, retval, fileState, closeTask,
              loads, hdrReadAt, lateClose, framesCounted, reuse, assertsOn,
              frameHdr, hdrCalls, matchOffsets, hintArg>>

hdrVars == <<hdrIn, hdrOut>>

pcmVars == <<pcmIn, pcmOut>>

vars == <<scanVars, hdrVars, pcmVars>>

NullPtr == 0 - 1

NotDecoded == [decoded |-> FALSE]

NoPcm == [set |-> FALSE]

(***************************************************************************)
(* Mp3AudioData accessors                                                  *)
(***************************************************************************)
HasMpegAudio == IsValid(firstMpegFrameHdr_)

GetFrameCount == frameCount_

Mp3GetVersion == GetVersion(firstMpegFrameHdr_)

Mp3GetLayer == GetLayer(firstMpegFrameHdr_)

Mp3GetSamplingRateHz == GetSamplingRateHz(firstMpegFrameHdr_)

GetChannelCount ==
  IF GetChannelMode(firstMpegFrameHdr_) = "SingleChannel" THEN 1 ELSE 2

\* round( durationSec_ * 1000 )
GetDurationMs ==
  (durationSec_ + (TicksPerSecond \div 2000)) \div (TicksPerSecond \div 1000)

(***************************************************************************)
(* Reading the buffer                                                      *)
(***************************************************************************)
\* *p for an offset p < audioBufferSize
Byte(p) == FileByte(fileBytes, hint + p)

\* the bytes a header read at p may see beyond the end of the buffer
TailsAt(p) == IF p + 4 <= audioBufferSize THEN {<<0, 0, 0>>} ELSE OobTails

HdrByte(p, k, t) == IF p + k < audioBufferSize THEN Byte(p + k) ELSE t[k]

\* MpegFrameHdr( pRawBuffer ) at offset p
HdrAt(p, t) == MakeHdr(Byte(p), HdrByte(p, 1, t), HdrByte(p, 2, t), HdrByte(p, 3, t))

(***************************************************************************)
(* Mp3AudioData::Load                                                      *)
(***************************************************************************)
InitScan ==
  /\ fileBytes = <<>>
  /\ hint = 0
  /\ audioBufferSize = 0
  /\ firstMpegFrameHdr_ = DefaultHdr
  /\ durationSec_ = 0
  /\ frameCount_ = 0
  /\ countFrames = 0
  /\ pFirstMpegFrame = NullPtr
  /\ pRawBuffer = 0
  /\ pEnd = 0
  /\ pc = "Unscanned"
  /\ inLoad = FALSE
  /\ retval = "none"
  /\ fileState = "none"
  /\ closeTask = "none"
  /\ loads = 0
  /\ hdrReadAt = NullPtr
  /\ lateClose = FALSE
  /\ framesCounted = 0
  /\ hintArg = 0
  /\ frameHdr = DefaultHdr
  /\ hdrCalls = {}
  /\ matchOffsets = <<>>

InitHdr ==
  /\ hdrIn = DefaultHdr
  /\ hdrOut = NotDecoded

InitPcm ==
  /\ pcmIn = NoPcm
  /\ pcmOut = NoPcm

\* a fresh Mp3AudioData that is loaded once
Init == InitScan /\ InitHdr /\ InitPcm /\ reuse = FALSE /\ assertsOn \in BOOLEAN

\* a fresh Mp3AudioData that is loaded up to MaxLoads times
InitReload == InitScan /\ InitHdr /\ InitPcm /\ reuse = TRUE /\ assertsOn \in BOOLEAN

\* the inputs a caller may pass to the next Load
LoadAllowed ==
  ~inLoad /\ pc # "Aborted" /\ loads < (IF reuse THEN MaxLoads ELSE 1)

InputFiles == IF reuse THEN ReloadFiles ELSE Files

\* mp3File.Open fails: Load returns false at once
LoadOpenFails ==
  /\ LoadAllowed
  /\ loads' = loads + 1
  /\ pc' = "OpenFailed"
  /\ retval' = "false"
  /\ hdrReadAt' = NullPtr
  /\ framesCounted' = 0
  /\ UNCHANGED <<fileBytes, hint, audioBufferSize, firstMpegFrameHdr_,
                 durationSec_, frameCount_, countFrames, pFirstMpegFrame,
                 pRawBuffer, pEnd, inLoad, fileState, closeTask, lateClose,
                 reuse, assertsOn, hintArg>>
  /\ UNCHANGED hdrVars
  /\ UNCHANGED pcmVars
  /\ UNCHANGED <<frameHdr, hdrCalls, matchOffsets>>

\* assert( fileAudioOffsetHint < fileLength );
HintAssert(h, fileLength) == h < fileLength

\* a build with assertions, and the hint is not below the file length: the
\* assertion fails and the program is aborted inside Load
LoadHintAsserts(f, h) ==
  /\ LoadAllowed
  /\ assertsOn
  /\ ~HintAssert(h, FileLength(f))
  /\ loads' = loads + 1
  /\ fileBytes' = f
  /\ hintArg' = h
  /\ pc' = "Aborted"
  /\ retval' = "none"
  /\ hdrReadAt' = NullPtr
  /\ framesCounted' = 0
  /\ UNCHANGED <<hint, audioBufferSize, firstMpegFrameHdr_, durationSec_,
                 frameCount_, countFrames, pFirstMpegFrame, pRawBuffer, pEnd,
                 inLoad, fileState, closeTask, lateClose, reuse, assertsOn,
                 frameHdr, hdrCalls, matchOffsets>>
  /\ UNCHANGED hdrVars
  /\ UNCHANGED pcmVars

\* if( fileAudioOffsetHint >= fileLength ) fileAudioOffsetHint = 0;
NormalizeHint(h, fileLength) == IF h >= fileLength THEN 0 ELSE h

\* mp3File.Read fails: audioBuffer_ has been resized, Load returns false and
\* the File goes out of scope
LoadReadFails(f, h) ==
  /\ LoadAllowed
  /\ (assertsOn => HintAssert(h, FileLength(f)))
  /\ hintArg' = h
  /\ loads' = loads + 1
  /\ fileBytes' = f
  /\ hint' = NormalizeHint(h, FileLength(f))
  /\ audioBufferSize' = FileLength(f) - hint'
  /\ pc' = "ReadFailed"
  /\ retval' = "false"
  /\ hdrReadAt' = NullPtr
  /\ framesCounted' = 0
  /\ UNCHANGED <<firstMpegFrameHdr_, durationSec_, frameCount_, countFrames,
                 pFirstMpegFrame, pRawBuffer, pEnd, inLoad, fileState,
                 closeTask, lateClose, reuse, assertsOn>>
  /\ UNCHANGED hdrVars
  /\ UNCHANGED pcmVars
  /\ UNCHANGED <<frameHdr, hdrCalls, matchOffsets>>

\* Open and Read succeed, the close task is launched and the search begins
LoadBegin(f, h) ==
  /\ LoadAllowed
  /\ (assertsOn => HintAssert(h, FileLength(f)))
  /\ hintArg' = h
  /\ loads' = loads + 1
  /\ fileBytes' = f
  /\ hint' = NormalizeHint(h, FileLength(f))
  /\ audioBufferSize' = FileLength(f) - hint'
  /\ fileState' = "open"
  /\ closeTask' = "running"
  /\ countFrames' = 0
  /\ pFirstMpegFrame' = NullPtr
  /\ pRawBuffer' = 0
  /\ pEnd' = Min(audioBufferSize', kMaxMpegFrameHeaderSearch)
  /\ pc' = "Searching"
  /\ inLoad' = TRUE
  /\ retval' = "none"
  /\ hdrReadAt' = NullPtr
  /\ framesCounted' = 0
  /\ UNCHANGED <<firstMpegFrameHdr_, durationSec_, frameCount_, lateClose,
                 reuse, assertsOn>>
  /\ UNCHANGED hdrVars
  /\ UNCHANGED pcmVars
  /\ frameHdr' = DefaultHdr
  /\ hdrCalls' = {}
  /\ matchOffsets' = <<>>

\* the [&] { mp3File.Close(); } task
AsyncClose ==
  /\ closeTask = "running"
  /\ closeTask' = "done"
  /\ fileState' = IF fileState = "open" THEN "closed" ELSE fileState
  /\ lateClose' = (lateClose \/ fileState = "none")
  /\ UNCHANGED <<fileBytes, hint, audioBufferSize, firstMpegFrameHdr_,
                 durationSec_, frameCount_, countFrames, pFirstMpegFrame,
                 pRawBuffer, pEnd, pc, inLoad, retval, loads, hdrReadAt,
                 framesCounted, reuse, assertsOn, hintArg>>
  /\ UNCHANGED hdrVars
  /\ UNCHANGED pcmVars
  /\ UNCHANGED <<frameHdr, hdrCalls, matchOffsets>>

\* frameHdr.IsValid() && GetVersion() == V1 && GetLayer() == LayerIII
IsMpeg1Layer3(h) ==
  IsValid(h) /\ GetVersion(h) = "V1" /\ GetLayer(h) = "LayerIII"

\* the frame size taken before the header is known to be valid
Mpeg1Layer3CallsSizeFirst(h) ==
  {"IsValid", "GetVersion", "GetLayer", "GetFrameBytes"}

\* the accessors the && chain of the test above calls before it is decided
Mpeg1Layer3Calls(h) ==
  IF ~IsValid(h) THEN {"IsValid"}
  ELSE IF GetVersion(h) # "V1" THEN {"IsValid", "GetVersion"}
  ELSE {"IsValid", "GetVersion", "GetLayer"}

\* offset = 1u is missing: a position that is no match is not stepped over
SearchStepNoAdvance ==
  /\ inLoad
  /\ pc = "Searching"
  /\ countFrames < kMinMpegFrames
  /\ pRawBuffer < pEnd
  /\ IF Byte(pRawBuffer) # kMpegHdrByte
     THEN /\ pRawBuffer' = pRawBuffer
          /\ frameHdr' = DefaultHdr
          /\ hdrCalls' = {}
          /\ UNCHANGED <<countFrames, pFirstMpegFrame, firstMpegFrameHdr_,
                         hdrReadAt, matchOffsets>>
     ELSE \E t \in TailsAt(pRawBuffer) :
            LET hdr == HdrAt(pRawBuffer, t)
            IN  /\ hdrReadAt' = pRawBuffer
                /\ frameHdr' = hdr
                /\ IF IsMpeg1Layer3(hdr)
                   THEN /\ pFirstMpegFrame' =
                             IF pFirstMpegFrame = NullPtr THEN pRawBuffer
                             ELSE pFirstMpegFrame
                        /\ firstMpegFrameHdr_' =
                             IF pFirstMpegFrame = NullPtr THEN hdr
                             ELSE firstMpegFrameHdr_
                        /\ countFrames' = countFrames + 1
                        /\ matchOffsets' = Append(matchOffsets, pRawBuffer)
                        /\ pRawBuffer' =
                             IF countFrames' = kMinMpegFrames THEN pRawBuffer
                             ELSE pRawBuffer + GetFrameBytes(hdr)
                        /\ hdrCalls' =
                             IF countFrames' = kMinMpegFrames
                             THEN {"IsValid", "GetVersion", "GetLayer"}
                             ELSE {"IsValid", "GetVersion", "GetLayer",
                                   "GetFrameBytes"}
                   ELSE /\ pRawBuffer' = pRawBuffer
                        /\ hdrCalls' = Mpeg1Layer3Calls(hdr)
                        /\ UNCHANGED <<countFrames, pFirstMpegFrame,
                                       firstMpegFrameHdr_, matchOffsets>>
  /\ UNCHANGED <<fileBytes, hint, audioBufferSize, durationSec_, frameCount_,
                 pEnd, pc, inLoad, retval, fileState, closeTask, loads,
                 lateClose, framesCounted, reuse, assertsOn, hintArg>>
  /\ UNCHANGED hdrVars
  /\ UNCHANGED pcmVars

\* every match is remembered as the first frame
SearchStepLastMatch ==
  /\ inLoad
  /\ pc = "Searching"
  /\ countFrames < kMinMpegFrames
  /\ pRawBuffer < pEnd
  /\ IF Byte(pRawBuffer) # kMpegHdrByte
     THEN /\ pRawBuffer' = pRawBuffer + 1
          /\ frameHdr' = DefaultHdr
          /\ hdrCalls' = {}
          /\ UNCHANGED <<countFrames, pFirstMpegFrame, firstMpegFrameHdr_,
                         hdrReadAt, matchOffsets>>
     ELSE \E t \in TailsAt(pRawBuffer) :
            LET hdr == HdrAt(pRawBuffer, t)
            IN  /\ hdrReadAt' = pRawBuffer
                /\ frameHdr' = hdr
                /\ IF IsMpeg1Layer3(hdr)
                   THEN /\ pFirstMpegFrame' = pRawBuffer
                        /\ firstMpegFrameHdr_' = hdr
                        /\ countFrames' = countFrames + 1
                        /\ matchOffsets' = Append(matchOffsets, pRawBuffer)
                        /\ pRawBuffer' =
                             IF countFrames' = kMinMpegFrames THEN pRawBuffer
                             ELSE pRawBuffer + GetFrameBytes(hdr)
                        /\ hdrCalls' =
                             IF countFrames' = kMinMpegFrames
                             THEN {"IsValid", "GetVersion", "GetLayer"}
                             ELSE {"IsValid", "GetVersion", "GetLayer",
                                   "GetFrameBytes"}
                   ELSE /\ pRawBuffer' = pRawBuffer + 1
                        /\ hdrCalls' = Mpeg1Layer3Calls(hdr)
                        /\ UNCHANGED <<countFrames, pFirstMpegFrame,
                                       firstMpegFrameHdr_, matchOffsets>>
  /\ UNCHANGED <<fileBytes, hint, audioBufferSize, durationSec_, frameCount_,
                 pEnd, pc, inLoad, retval, fileState, closeTask, loads,
                 lateClose, framesCounted, reuse, assertsOn, hintArg>>
  /\ UNCHANGED hdrVars
  /\ UNCHANGED pcmVars

\* one iteration of the search loop
SearchStep ==
  /\ inLoad
  /\ pc = "Searching"
  /\ countFrames < kMinMpegFrames
  /\ pRawBuffer < pEnd
  /\ IF Byte(pRawBuffer) # kMpegHdrByte
     THEN /\ pRawBuffer' = pRawBuffer + 1
          /\ frameHdr' = DefaultHdr
          /\ hdrCalls' = {}
          /\ UNCHANGED <<countFrames, pFirstMpegFrame, firstMpegFrameHdr_,
                         hdrReadAt, matchOffsets>>
     ELSE \E t \in TailsAt(pRawBuffer) :
            LET hdr == HdrAt(pRawBuffer, t)
            IN  /\ hdrReadAt' = pRawBuffer
                /\ frameHdr' = hdr
                /\ IF IsMpeg1Layer3(hdr)
                   THEN /\ pFirstMpegFrame' =
                             IF pFirstMpegFrame = NullPtr THEN pRawBuffer
                             ELSE pFirstMpegFrame
                        /\ firstMpegFrameHdr_' =
                             IF pFirstMpegFrame = NullPtr THEN hdr
                             ELSE firstMpegFrameHdr_
                        /\ countFrames' = countFrames + 1
                        /\ matchOffsets' = Append(matchOffsets, pRawBuffer)
                        /\ pRawBuffer' =
                             IF countFrames' = kMinMpegFrames THEN pRawBuffer
                             ELSE pRawBuffer + GetFrameBytes(hdr)
                        /\ hdrCalls' =
                             IF countFrames' = kMinMpegFrames
                             THEN {"IsValid", "GetVersion", "GetLayer"}
                             ELSE {"IsValid", "GetVersion", "GetLayer",
                                   "GetFrameBytes"}
                   ELSE /\ pRawBuffer' = pRawBuffer + 1
                        /\ hdrCalls' = Mpeg1Layer3Calls(hdr)
                        /\ UNCHANGED <<countFrames, pFirstMpegFrame,
                                       firstMpegFrameHdr_, matchOffsets>>
  /\ UNCHANGED <<fileBytes, hint, audioBufferSize, durationSec_, frameCount_,
                 pEnd, pc, inLoad, retval, fileState, closeTask, loads,
                 lateClose, framesCounted, reuse, assertsOn, hintArg>>
  /\ UNCHANGED hdrVars
  /\ UNCHANGED pcmVars

NotEnoughFramesNone(n) == n = 0

\* if( countFrames < kMinMpegFrames ) return false;
NotEnoughFrames(n) == n < kMinMpegFrames

\* the search loop is left: not MPEG, or ParseFrames is entered
SearchExit ==
  /\ inLoad
  /\ pc = "Searching"
  /\ (countFrames = kMinMpegFrames \/ pRawBuffer >= pEnd)
  /\ IF NotEnoughFrames(countFrames)
     THEN /\ pc' = "Rejected"
          /\ UNCHANGED <<durationSec_, pRawBuffer, pEnd>>
     ELSE /\ pc' = "Accounting"
          /\ durationSec_' = 0
          /\ pRawBuffer' = pFirstMpegFrame
          /\ pEnd' = pFirstMpegFrame + (audioBufferSize - pFirstMpegFrame)
  /\ UNCHANGED <<fileBytes, hint, audioBufferSize, firstMpegFrameHdr_,
                 frameCount_, countFrames, pFirstMpegFrame, inLoad, retval,
                 fileState, closeTask, loads, hdrReadAt, lateClose,
                 framesCounted, reuse, assertsOn, hintArg>>
  /\ UNCHANGED hdrVars
  /\ UNCHANGED pcmVars
  /\ UNCHANGED <<frameHdr, hdrCalls, matchOffsets>>

ParseStepByteWise ==
  /\ inLoad
  /\ pc = "Accounting"
  /\ pRawBuffer < pEnd
  /\ IF Byte(pRawBuffer) # kMpegHdrByte
     THEN /\ pRawBuffer' = pRawBuffer + 1
          /\ frameHdr' = DefaultHdr
          /\ hdrCalls' = {}
          /\ UNCHANGED <<durationSec_, frameCount_, framesCounted, hdrReadAt>>
     ELSE \E t \in TailsAt(pRawBuffer) :
            LET hdr == HdrAt(pRawBuffer, t)
            IN  /\ hdrReadAt' = pRawBuffer
                /\ frameHdr' = hdr
                /\ hdrCalls' =
                     IF IsValid(hdr)
                     THEN {"IsValid", "GetFrameBytes", "GetFrameDurationInSeconds"}
                     ELSE {"IsValid"}
                /\ pRawBuffer' = pRawBuffer + 1
                /\ IF ~IsValid(hdr)
                   THEN UNCHANGED <<durationSec_, frameCount_, framesCounted>>
                   ELSE /\ durationSec_' =
                             durationSec_ + GetFrameDurationInSeconds(hdr)
                        /\ frameCount_' = frameCount_ + 1
                        /\ framesCounted' = framesCounted + 1
  /\ UNCHANGED <<fileBytes, hint, audioBufferSize, firstMpegFrameHdr_,
                 countFrames, pFirstMpegFrame, pEnd, pc, inLoad, retval,
                 fileState, closeTask, loads, lateClose, reuse, assertsOn, hintArg>>
  /\ UNCHANGED hdrVars
  /\ UNCHANGED pcmVars
  /\ UNCHANGED matchOffsets

\* only MPEG-1 Layer III headers are counted
ParseStepLayer3Only ==
  /\ inLoad
  /\ pc = "Accounting"
  /\ pRawBuffer < pEnd
  /\ IF Byte(pRawBuffer) # kMpegHdrByte
     THEN /\ pRawBuffer' = pRawBuffer + 1
          /\ frameHdr' = DefaultHdr
          /\ hdrCalls' = {}
          /\ UNCHANGED <<durationSec_, frameCount_, framesCounted, hdrReadAt>>
     ELSE \E t \in TailsAt(pRawBuffer) :
            LET hdr == HdrAt(pRawBuffer, t)
            IN  /\ hdrReadAt' = pRawBuffer
                /\ frameHdr' = hdr
                /\ hdrCalls' =
                     IF IsMpeg1Layer3(hdr)
                     THEN {"IsValid", "GetFrameBytes", "GetFrameDurationInSeconds"}
                     ELSE {"IsValid"}
                /\ IF ~IsMpeg1Layer3(hdr)
                   THEN /\ pRawBuffer' = pRawBuffer + 1
                        /\ UNCHANGED <<durationSec_, frameCount_, framesCounted>>
                   ELSE /\ pRawBuffer' = pRawBuffer + GetFrameBytes(hdr)
                        /\ durationSec_' =
                             durationSec_ + GetFrameDurationInSeconds(hdr)
                        /\ frameCount_' = frameCount_ + 1
                        /\ framesCounted' = framesCounted + 1
  /\ UNCHANGED <<fileBytes, hint, audioBufferSize, firstMpegFrameHdr_,
                 countFrames, pFirstMpegFrame, pEnd, pc, inLoad, retval,
                 fileState, closeTask, loads, lateClose, reuse, assertsOn, hintArg>>
  /\ UNCHANGED hdrVars
  /\ UNCHANGED pcmVars
  /\ UNCHANGED matchOffsets

\* one iteration of the loop of ParseFrames
ParseStep ==
  /\ inLoad
  /\ pc = "Accounting"
  /\ pRawBuffer < pEnd
  /\ IF Byte(pRawBuffer) # kMpegHdrByte
     THEN /\ pRawBuffer' = pRawBuffer + 1
          /\ frameHdr' = DefaultHdr
          /\ hdrCalls' = {}
          /\ UNCHANGED <<durationSec_, frameCount_, framesCounted, hdrReadAt>>
     ELSE \E t \in TailsAt(pRawBuffer) :
            LET hdr == HdrAt(pRawBuffer, t)
            IN  /\ hdrReadAt' = pRawBuffer
                /\ frameHdr' = hdr
                /\ hdrCalls' =
                     IF IsValid(hdr)
                     THEN {"IsValid", "GetFrameBytes", "GetFrameDurationInSeconds"}
                     ELSE {"IsValid"}
                /\ IF ~IsValid(hdr)
                   THEN /\ pRawBuffer' = pRawBuffer + 1
                        /\ UNCHANGED <<durationSec_, frameCount_, framesCounted>>
                   ELSE /\ pRawBuffer' = pRawBuffer + GetFrameBytes(hdr)
                        /\ durationSec_' =
                             durationSec_ + GetFrameDurationInSeconds(hdr)
                        /\ frameCount_' = frameCount_ + 1
                        /\ framesCounted' = framesCounted + 1
  /\ UNCHANGED <<fileBytes, hint, audioBufferSize, firstMpegFrameHdr_,
                 countFrames, pFirstMpegFrame, pEnd, pc, inLoad, retval,
                 fileState, closeTask, loads, lateClose, reuse, assertsOn, hintArg>>
  /\ UNCHANGED hdrVars
  /\ UNCHANGED pcmVars
  /\ UNCHANGED matchOffsets

\* the loop of ParseFrames is left; the debug loop that follows starts at
\* pRawBuffer >= pEnd and does nothing
ParseExit ==
  /\ inLoad
  /\ pc = "Accounting"
  /\ pRawBuffer >= pEnd
  /\ pc' = "Summarized"
  /\ UNCHANGED <<fileBytes, hint, audioBufferSize, firstMpegFrameHdr_,
                 durationSec_, frameCount_, countFrames, pFirstMpegFrame,
                 pRawBuffer, pEnd, inLoad, retval, fileState, closeTask,
                 loads, hdrReadAt, lateClose, framesCounted, reuse, assertsOn, hintArg>>
  /\ UNCHANGED hdrVars
  /\ UNCHANGED pcmVars
  /\ UNCHANGED <<frameHdr, hdrCalls, matchOffsets>>

FutureDetached == TRUE

\* ~future of a std::async task blocks until the task has completed
FutureJoined == closeTask = "done"

\* return: fileClose is destroyed first (joining the task), then mp3File;
\* the locals of Load go out of scope
LoadReturn ==
  /\ inLoad
  /\ pc \in {"Rejected", "Summarized"}
  /\ FutureJoined
  /\ inLoad' = FALSE
  /\ retval' = IF pc = "Summarized" THEN "true" ELSE "false"
  /\ fileState' = "none"
  /\ countFrames' = 0
  /\ pFirstMpegFrame' = NullPtr
  /\ pRawBuffer' = 0
  /\ pEnd' = 0
  /\ UNCHANGED <<fileBytes, hint, audioBufferSize, firstMpegFrameHdr_,
                 durationSec_, frameCount_, pc, closeTask, loads, hdrReadAt,
                 lateClose, framesCounted, reuse, assertsOn, hintArg>>
  /\ UNCHANGED hdrVars
  /\ UNCHANGED pcmVars
  /\ frameHdr' = DefaultHdr
  /\ hdrCalls' = {}
  /\ matchOffsets' = <<>>

Next ==
  \/ LoadOpenFails
  \/ (LoadAllowed /\ \E f \in InputFiles, h \in 0..MaxHint : LoadHintAsserts(f, h))
  \/ (LoadAllowed /\ \E f \in InputFiles, h \in 0..MaxHint : LoadReadFails(f, h))
  \/ (LoadAllowed /\ \E f \in InputFiles, h \in 0..MaxHint : LoadBegin(f, h))
  \/ AsyncClose
  \/ SearchStep
  \/ SearchExit
  \/ ParseStep
  \/ ParseExit
  \/ LoadReturn

Spec == Init /\ [][Next]_vars

SpecReload == InitReload /\ [][Next]_vars

\* Load runs on the caller's thread and the close task on a thread of its
\* own; each of the two keeps running
ScanThread == SearchStep \/ SearchExit \/ ParseStep \/ ParseExit \/ LoadReturn

Fairness == WF_vars(ScanThread) /\ WF_vars(AsyncClose)

\* the files of the runs that are followed to their end: the empty file and
\* the files that begin with a frame; the hint is 0
LiveFiles == {f \in FilesOver({"A", "K", "B", "X"}) : f = <<>> \/ Head(f) = "A"}

NextLive ==
  \/ LoadOpenFails
  \/ (LoadAllowed /\ \E f \in LiveFiles : LoadHintAsserts(f, 0))
  \/ (LoadAllowed /\ \E f \in LiveFiles : LoadReadFails(f, 0))
  \/ (LoadAllowed /\ \E f \in LiveFiles : LoadBegin(f, 0))
  \/ AsyncClose
  \/ ScanThread

SpecLive == Init /\ [][NextLive]_vars /\ Fairness

(***************************************************************************)
(* Load of a file that is longer than the search ceiling.  The hint is 0,  *)
(* Open and Read succeed, and the build is one without assertions (none of *)
(* them can fail on these inputs).                                         *)
(***************************************************************************)
InitCeiling == InitScan /\ InitHdr /\ InitPcm /\ reuse = FALSE /\ assertsOn = FALSE

NextCeiling ==
  \/ (LoadAllowed /\ \E f \in LongFiles : LoadBegin(f, 0))
  \/ AsyncClose
  \/ SearchStep
  \/ SearchExit
  \/ ParseStep
  \/ ParseExit
  \/ LoadReturn

SpecCeiling == InitCeiling /\ [][NextCeiling]_vars

(***************************************************************************)
(* The header decoder on its own: a word is chosen, then every accessor    *)
(* is called on it.  The accessors that index the tables are called on     *)
(* valid headers only, as the header file asks.                            *)
(***************************************************************************)
\* the words under test: every value of the second and third byte (the low
\* sync bits, version, layer, protection, bitrate, sampling rate, padding,
\* private); the first byte with a full sync, and with one bit or all bits
\* of it cleared; the last byte (channel mode, mode extension, copyright,
\* original, emphasis) all zeros and all ones
FirstBytes == {255, 127, 254, 0}

LastBytes == {0, 255}

\* the header that differs from h in the padding bit only
PaddingTwin(h) ==
  IF (h.lo \div 512) % 2 = 0 THEN Word(h.hi, h.lo + 512) ELSE Word(h.hi, h.lo - 512)

InitDecoder ==
  /\ InitScan
  /\ InitPcm
  /\ reuse = FALSE
  /\ assertsOn = TRUE
  /\ \E b0 \in FirstBytes, b1 \in 0..255, b2 \in 0..255, b3 \in LastBytes :
       /\ (b0 # 255 => b1 >= 224 /\ b3 = 0)
       /\ hdrIn = MakeHdr(b0, b1, b2, b3)
  /\ hdrOut = NotDecoded

Decode ==
  /\ ~hdrOut.decoded
  /\ hdrOut' =
       IF IsValid(hdrIn)
       THEN [decoded |-> TRUE, isValid |-> TRUE,
             version |-> GetVersion(hdrIn),
             layer |-> GetLayer(hdrIn),
             channelMode |-> GetChannelMode(hdrIn),
             bitrateKbps |-> GetBitrateKbps(hdrIn),
             samplingRateHz |-> GetSamplingRateHz(hdrIn),
             sampleCount |-> GetSampleCount(hdrIn),
             frameBytes |-> GetFrameBytes(hdrIn),
             frameBytesAsserts |-> FrameBytesAsserts(hdrIn),
             twinFrameBytes |-> GetFrameBytes(PaddingTwin(hdrIn)),
             duration |-> GetFrameDurationInSeconds(hdrIn),
             protectedByCRC |-> ProtectedByCRC(hdrIn),
             hasPaddingBit |-> HasPaddingBit(hdrIn)]
       ELSE [decoded |-> TRUE, isValid |-> FALSE,
             version |-> GetVersion(hdrIn),
             layer |-> GetLayer(hdrIn),
             channelMode |-> GetChannelMode(hdrIn),
             protectedByCRC |-> ProtectedByCRC(hdrIn),
             hasPaddingBit |-> HasPaddingBit(hdrIn)]
  /\ UNCHANGED hdrIn
  /\ UNCHANGED scanVars
  /\ UNCHANGED pcmVars

NextDecoder == Decode

SpecDecoder == InitDecoder /\ [][NextDecoder]_vars

(***************************************************************************)
(* Either of the two: a fresh Mp3AudioData is loaded once, or a header     *)
(* word is decoded.                                                        *)
(***************************************************************************)
InitScanOrDecoder == Init \/ InitDecoder

NextScanOrDecoder ==
  \/ (hdrIn = DefaultHdr /\ hdrOut = NotDecoded /\ Next)
  \/ (loads = 0 /\ NextDecoder)

SpecScanOrDecoder == InitScanOrDecoder /\ [][NextScanOrDecoder]_vars

(***************************************************************************)
(* PcmData.cpp: the size estimate of the PCM buffer.  A uint32_t is a word *)
(* of two 16-bit halves; the exact product of two words has four halves.   *)
(***************************************************************************)
kPcmBitsPerSample == 16

kDecompressionCushionMs == 2000

kMillisecondsPerSecond == 1000

\* a + b of two uint32_t, exactly: the 32-bit sum and the carry out of it
AddExact(a, b) ==
  LET lo == a.lo + b.lo
      hi == a.hi + b.hi + (lo \div Half)
  IN  [sum |-> Word(hi % Half, lo % Half), carry |-> hi \div Half]

\* a / d of a uint32_t by a divisor below 2^15
Div32(a, d) == Word(a.hi \div d, (((a.hi % d) * Half) + a.lo) \div d)

\* the exact product of two 16-bit halves, as a word
MulHalf(a, b) ==
  LET p0 == a * (b % 256)
      p1 == a * (b \div 256)
      t  == p0 + ((p1 % 256) * 256)
  IN  Word((p1 \div 256) + (t \div Half), t % Half)

\* a * b of two uint32_t, exactly: the 32-bit product the machine keeps and
\* the upper 32 bits it drops
MulExact(a, b) ==
  LET ll == MulHalf(a.lo, b.lo)
      lh == MulHalf(a.lo, b.hi)
      hl == MulHalf(a.hi, b.lo)
      hh == MulHalf(a.hi, b.hi)
      c1 == ll.hi + lh.lo + hl.lo
      c2 == (c1 \div Half) + lh.hi + hl.hi + hh.lo
      c3 == (c2 \div Half) + hh.hi
  IN  [prod |-> Word(c1 % Half, ll.lo), over |-> Word(c3 % Half, c2 % Half)]

\* a < b of two uint32_t
Lt32(a, b) == a.hi < b.hi \/ (a.hi = b.hi /\ a.lo < b.lo)

PcmChannelCount == [Mono |-> 1, Stereo |-> 2]

SetChannelCountAsInt(channelCount) ==
  IF channelCount = 1 THEN "Mono" ELSE "Stereo"

\* the two assertions of GetEstDataSize
SampleCountAssert(sampleCount, audioMilliseconds) ==
  Lt32(audioMilliseconds, sampleCount)

TotalBytesAssert(totalBytes, channelByteCount) ==
  Lt32(channelByteCount, totalBytes)

\* the locals of GetEstDataSize( audioMilliseconds ) on the object o
EstDataSizeLocals(o, ms) ==
  LET audioMilliseconds == AddExact(ms, ToWord(kDecompressionCushionMs)).sum
      sampleCount ==
        MulExact(Div32(audioMilliseconds, kMillisecondsPerSecond),
                 o.samplesPerSecond_).prod
      bytesPerSample == ToWord(o.bitsPerSample_ \div CHAR_BIT)
      channelByteCount == MulExact(sampleCount, bytesPerSample).prod
      totalBytes ==
        MulExact(channelByteCount, ToWord(PcmChannelCount[o.channelCount_])).prod
  IN  [audioMilliseconds |-> audioMilliseconds,
       sampleCount |-> sampleCount,
       bytesPerSample |-> bytesPerSample,
       channelByteCount |-> channelByteCount,
       totalBytes |-> totalBytes]

\* the audio lengths handed to PrepareBuffer, in milliseconds
AudioMsInputs ==
  {0, 1, 999, 1000, 26, 60000} \cup {m * 1000000 : m \in 1..MaxAudioMegaMs}

\* the sampling rates Mp3AudioData::GetSamplingRateHz can report: the first
\* header is MPEG Version 1
ScannerSamplingRates == {kSamplingRates[4][i] : i \in 1..3}

\* WavePlayer::LoadMp3 sets up the PcmData from what the scan reported
InitPcmData ==
  /\ InitScan
  /\ InitHdr
  /\ reuse = FALSE
  /\ assertsOn \in BOOLEAN
  /\ \E c \in 1..2, r \in ScannerSamplingRates, ms \in AudioMsInputs :
       pcmIn = [set |-> TRUE,
                channelCount_ |-> SetChannelCountAsInt(c),
                bitsPerSample_ |-> kPcmBitsPerSample,
                samplesPerSecond_ |-> ToWord(r),
                audioMilliseconds |-> ToWord(ms)]
  /\ pcmOut = NoPcm

\* PrepareBuffer calls GetEstDataSize: a failed assertion ends the program,
\* otherwise totalBytes is returned
GetEstDataSize ==
  /\ pcmIn.set
  /\ ~pcmOut.set
  /\ LET l == EstDataSizeLocals(pcmIn, pcmIn.audioMilliseconds)
         holds == /\ SampleCountAssert(l.sampleCount, l.audioMilliseconds)
                  /\ TotalBytesAssert(l.totalBytes, l.channelByteCount)
     IN  pcmOut' = [set |-> TRUE,
                    locals |-> l,
                    aborted |-> assertsOn /\ ~holds,
                    byteEstimate |-> l.totalBytes]
  /\ UNCHANGED <<pcmIn, scanVars, hdrVars>>

NextPcm == GetEstDataSize

SpecPcm == InitPcmData /\ [][NextPcm]_vars

(***************************************************************************)
(* The header fields as the MPEG frame layout gives them, read from the    *)
(* two halves by division: the statements below are measured against       *)
(* these, not against ExtractBits.                                         *)
(*   AAAAAAAA AAABBCCD EEEEFFGH IIJJKLMM                                   *)
(***************************************************************************)
FieldSync(h) == h.hi \div 32

FieldVersion(h) == (h.hi \div 8) % 4

FieldLayer(h) == (h.hi \div 2) % 4

FieldProtection(h) == h.hi % 2

FieldBitrate(h) == h.lo \div 4096

FieldSamplingRate(h) == (h.lo \div 1024) % 4

FieldPadding(h) == (h.lo \div 512) % 2

\* the validity rule of the data model
RuleValid(h) ==
  /\ FieldSync(h) = 2047
  /\ FieldVersion(h) # 1
  /\ FieldLayer(h) # 0
  /\ FieldBitrate(h) \notin {0, 15}
  /\ FieldSamplingRate(h) # 3

\* floor( samplesPerFrame * bitrateKbps * 1000 / ( 8 * slotSize * samplingRateHz ) )
\* + ( padding ? slotSize : 0 ), in exact integers, for a valid header
RuleFrameBytes(h) ==
  LET spf  == kSamplesPerFrame[FieldVersion(h) + 1][FieldLayer(h) + 1]
      slot == IF FieldLayer(h) = 3 THEN 4 ELSE 1
      kbps == kBitrates[FieldBitrate(h) + 1][FieldVersion(h) + 1][FieldLayer(h) + 1]
      rate == kSamplingRates[FieldVersion(h) + 1][FieldSamplingRate(h) + 1]
  IN  ((spf * (kbps * 1000)) \div (8 * slot * rate)) + FieldPadding(h) * slot

(***************************************************************************)
(* Statements about Load                                                   *)
(***************************************************************************)

\* C1: after a Load whose search found fewer than 3 MPEG-1 Layer III headers
\* the summary is empty: HasMpegAudio() is false, the frame count is 0 and
\* the duration is 0.
C1_RejectedSummaryEmpty ==
  pc = "Rejected" =>
    /\ ~HasMpegAudio
    /\ GetFrameCount = 0
    /\ GetDurationMs = 0

\* C2: with fewer than 3 matches Load returns false and ParseFrames is never
\* entered: the scan goes Unscanned -> Searching -> Rejected, and Accounting
\* and Summarized are entered only after the match counter has reached 3.
C2_PhaseInv ==
  /\ (inLoad /\ pc \in {"Accounting", "Summarized"} => countFrames = 3)
  /\ (inLoad /\ pc = "Rejected" => countFrames < 3 /\ framesCounted = 0)
  /\ (~inLoad /\ pc = "Rejected" => retval = "false" /\ framesCounted = 0)
  /\ (retval = "true" => pc = "Summarized")

C2_PhaseStep ==
  /\ (pc = "Searching" /\ pc' # "Searching" /\ countFrames < 3 => pc' = "Rejected")
  /\ (pc' = "Searching" /\ pc # "Searching" => ~inLoad /\ countFrames' = 0)
  /\ (pc' = "Accounting" /\ pc # "Accounting" => pc = "Searching" /\ countFrames = 3)
  /\ (pc' = "Summarized" /\ pc # "Summarized" => pc = "Accounting")
  /\ (pc' = "Rejected" /\ pc # "Rejected" => pc = "Searching")
  /\ (pc = "Rejected" => pc' = "Rejected" \/ ~inLoad)

\* C2: a Load whose search ends with fewer than three matches goes from
\* Searching to Rejected and returns false; Accounting and Summarized are
\* entered only by a call whose counter reached three.
C2_RejectedBelowThreshold == []C2_PhaseInv /\ [][C2_PhaseStep]_vars

C2_Witness == inLoad /\ pc = "Rejected" /\ countFrames = 2 /\ audioBufferSize > 4

\* C3: the summary after a Load depends on that Load alone: the frame count
\* reported after a successful Load is the number of frames this Load counted
\* (so loading the same buffer twice reports the same count as loading it once).
C3_FrameCountOfLastLoadOnly ==
  pc = "Summarized" => GetFrameCount = framesCounted

\* C4: a frame header is only ever decoded at an offset p with
\* p + 4 <= buffer length.
C4_HeaderReadInBounds ==
  hdrReadAt # NullPtr => hdrReadAt + 4 <= audioBufferSize

\* a file of N >= 3 back-to-back frames: every segment begins with the same
\* valid MPEG-1 Layer III header and is exactly as long as the frame size
\* the header gives
SegHdr(k) ==
  LET pre == SegKinds[k].pre IN MakeHdr(pre[1], pre[2], pre[3], pre[4])

IsFrameChain(f) ==
  /\ Len(f) >= 3
  /\ \A i \in 1..Len(f) :
       /\ Len(SegKinds[f[i]].pre) >= 4
       /\ SegHdr(f[i]) = SegHdr(f[1])
       /\ RuleValid(SegHdr(f[i]))
       /\ FieldVersion(SegHdr(f[i])) = 3
       /\ FieldLayer(SegHdr(f[i])) = 1
       /\ SegKinds[f[i]].len = RuleFrameBytes(SegHdr(f[i]))

\* C6: for a buffer of exactly N >= 3 back-to-back frames with the same valid
\* MPEG-1 Layer III header and arbitrary payload, Load on a fresh object
\* returns true with frame count N and duration N * 1152 / 48000 seconds
\* (the frames of the model are 48 kHz frames).
C6_FrameChainCounted ==
  (loads = 1 /\ hint = 0 /\ pc \notin {"OpenFailed", "ReadFailed"}
     /\ IsFrameChain(fileBytes)) =>
    /\ pc # "Rejected"
    /\ (pc = "Summarized" =>
          /\ GetFrameCount = Len(fileBytes)
          /\ durationSec_ = Len(fileBytes) * 1152 * (TicksPerSecond \div 48000)
          /\ GetDurationMs = 24 * Len(fileBytes))
    /\ (~inLoad => retval = "true")

C6_Witness ==
  /\ ~inLoad /\ retval = "true" /\ loads = 1 /\ hint = 0
  /\ IsFrameChain(fileBytes)
  /\ \E i \in 1..Len(fileBytes) : fileBytes[i] = "G"

\* C10: the close task and the scan are unordered, yet both have completed
\* when Load returns, Close() never runs on a destroyed File, the close step
\* changes nothing the scan reads or writes.
ScanVarsOfLoad ==
  <<fileBytes, hint, audioBufferSize, firstMpegFrameHdr_, durationSec_,
    frameCount_, countFrames, pFirstMpegFrame, pRawBuffer, pEnd, pc>>

C10_Inv ==
  /\ (~inLoad => closeTask # "running")
  /\ ~lateClose
  /\ (closeTask = "running" => fileState = "open")
  /\ (~inLoad /\ pc \in {"Rejected", "Summarized"} =>
        closeTask = "done" /\ fileState = "none")

C10_Step == closeTask' # closeTask /\ inLoad => UNCHANGED ScanVarsOfLoad

\* C10: the close task runs at any point of the scan, never after the File
\* is destroyed, has completed when Load returns, and changes nothing the
\* scan reads or writes.
C10_CloseJoinedBeforeReturn == []C10_Inv /\ [][C10_Step]_vars

C10_Witness == inLoad /\ pc = "Summarized" /\ closeTask = "running"

(***************************************************************************)
(* Statements about the header decoder                                     *)
(***************************************************************************)

\* C5: IsValid() is true exactly when the top 11 bits are all ones,
\* VersionIndex # 1, LayerIndex # 0, BitrateIndex is neither 0 nor 15 and
\* SamplingRateFreqIndex # 3, whatever the other bits are.
C5_IsValidIffRule ==
  hdrOut.decoded => (hdrOut.isValid <=> RuleValid(hdrIn))

C5_Witness ==
  /\ hdrOut.decoded /\ hdrOut.isValid
  /\ hdrIn.lo % 256 = 255 /\ FieldProtection(hdrIn) = 0 /\ FieldPadding(hdrIn) = 1

\* C7: for every valid header GetFrameBytes() is
\* floor( samplesPerFrame / 8 / slotSize * bitrateKbps * 1000 / samplingRateHz )
\* + ( padding ? slotSize : 0 ) in exact integers; for MPEG-1 Layer III,
\* 128 kbps, 44.1 kHz, no padding it is 417.
C7_FrameBytesExact ==
  (hdrOut.decoded /\ hdrOut.isValid) =>
    /\ hdrOut.frameBytes = RuleFrameBytes(hdrIn)
    /\ (hdrIn = MakeHdr(255, 251, 144, 0) => hdrOut.frameBytes = 417)

C7_Witness ==
  hdrOut.decoded /\ hdrOut.isValid /\ hdrIn = MakeHdr(255, 251, 144, 0)

\* C8: two valid headers that differ only in the padding bit have frame sizes
\* that differ by the slot size: 1 for Layer II and III, 4 for Layer I.
C8_PaddingAddsOneSlot ==
  (hdrOut.decoded /\ hdrOut.isValid) =>
    LET slot   == IF hdrOut.layer = "LayerI" THEN 4 ELSE 1
        padded == IF FieldPadding(hdrIn) = 1 THEN hdrOut.frameBytes
                  ELSE hdrOut.twinFrameBytes
        plain  == IF FieldPadding(hdrIn) = 1 THEN hdrOut.twinFrameBytes
                  ELSE hdrOut.frameBytes
    IN  padded - plain = slot

C8_Witness ==
  /\ hdrOut.decoded /\ hdrOut.isValid /\ hdrOut.layer = "LayerI"
  /\ hdrOut.twinFrameBytes = hdrOut.frameBytes + 4

\* C9: for every valid header ProtectedByCRC() is true exactly when the
\* ProtectionBit field is 0 (a CRC follows the header).
C9_ProtectedIffBitClear ==
  (hdrOut.decoded /\ hdrOut.isValid) =>
    (hdrOut.protectedByCRC <=> FieldProtection(hdrIn) = 0)


(***************************************************************************)
(* C11                                                                     *)
(***************************************************************************)
\* the search loop with ceiling S: its bound is min(buffer length, S), it
\* has counted at most kMinMpegFrames matches, and at the third match the
\* cursor is still on that match
C11_CeilingInv(S) ==
  inLoad /\ pc = "Searching" =>
    /\ pEnd = Min(audioBufferSize, S)
    /\ countFrames <= kMinMpegFrames
    /\ Len(matchOffsets) = countFrames
    /\ (countFrames = kMinMpegFrames => pRawBuffer = matchOffsets[kMinMpegFrames])

\* an offset is examined only below the ceiling and below the threshold, the
\* loop is left only when one of the two is reached, and the step that
\* counts the third match does not move the cursor
C11_CeilingStep(S) ==
  inLoad /\ pc = "Searching" =>
    /\ (pc' = "Searching" /\ closeTask' = closeTask =>
          pRawBuffer < Min(audioBufferSize, S) /\ countFrames < kMinMpegFrames)
    /\ (pc' # "Searching" =>
          ~(pRawBuffer < Min(audioBufferSize, S) /\ countFrames < kMinMpegFrames))
    /\ (countFrames' = kMinMpegFrames /\ countFrames < kMinMpegFrames =>
          pRawBuffer' = pRawBuffer /\ pc' = "Searching")

\* C11 as stated: the search ceiling is 512 KiB (524288 bytes) and the match
\* threshold is 3; the search examines offset p exactly when
\* p < min(buffer length, 524288) and fewer than 3 matches are counted.
C11_SearchCeiling512KiB == C11_CeilingInv(512 * 1024)

\* C11 as amended: the search ceiling is 500 * 1024 = 512000 bytes and the
\* match threshold is 3; the search examines offset p exactly when
\* p < min(buffer length, 512000) and fewer than 3 matches are counted, and
\* it stops at the third match without advancing past it.
C11_SearchCeiling500KiB ==
  []C11_CeilingInv(500 * 1024) /\ [][C11_CeilingStep(500 * 1024)]_vars

\* the search of a buffer longer than the ceiling is under way
C11_Witness ==
  /\ inLoad /\ pc = "Searching"
  /\ audioBufferSize > 500 * 1024
  /\ pEnd = 500 * 1024
  /\ pRawBuffer > 0


(***************************************************************************)
(* C12                                                                     *)
(***************************************************************************)
\* C12: a hint that is not below the file length (hint 0 on an empty file
\* included) is treated as 0 without an error or a failed assertion: the
\* buffer is the whole file, as for hint 0; a hint below the file length
\* makes the buffer the file from that offset to its end.
C12_HintSilentlyNormalized ==
  /\ pc # "Aborted"
  /\ (pc \in {"ReadFailed", "Searching", "Accounting", "Rejected", "Summarized"} =>
        IF hintArg >= FileLength(fileBytes)
        THEN hint = 0 /\ audioBufferSize = FileLength(fileBytes)
        ELSE hint = hintArg /\ audioBufferSize = FileLength(fileBytes) - hintArg)


(***************************************************************************)
(* C13                                                                     *)
(***************************************************************************)
\* what the indices denote in the MPEG frame layout: the version and layer
\* codes, the bitrate columns by version class and layer for indices 1..14,
\* and the MPEG-1 sampling rates, halved for MPEG-2 and quartered for 2.5
RuleVersion(v) == CASE v = 0 -> "V2_5" [] v = 2 -> "V2" [] v = 3 -> "V1"

RuleLayer(l) == CASE l = 1 -> "LayerIII" [] l = 2 -> "LayerII" [] l = 3 -> "LayerI"

RuleBitrateKbps(v, l, b) ==
  LET v1l1 == <<32, 64, 96, 128, 160, 192, 224, 256, 288, 320, 352, 384, 416, 448>>
      v1l2 == <<32, 48, 56, 64, 80, 96, 112, 128, 160, 192, 224, 256, 320, 384>>
      v1l3 == <<32, 40, 48, 56, 64, 80, 96, 112, 128, 160, 192, 224, 256, 320>>
      v2l1 == <<32, 48, 56, 64, 80, 96, 112, 128, 144, 160, 176, 192, 224, 256>>
      v2lx == <<8, 16, 24, 32, 40, 48, 56, 64, 80, 96, 112, 128, 144, 160>>
  IN  IF v = 3
      THEN (CASE l = 3 -> v1l1 [] l = 2 -> v1l2 [] l = 1 -> v1l3)[b]
      ELSE (IF l = 3 THEN v2l1 ELSE v2lx)[b]

RuleSamplingRateHz(v, i) ==
  <<44100, 48000, 32000>>[i + 1] \div (CASE v = 3 -> 1 [] v = 2 -> 2 [] v = 0 -> 4)

\* C13: a header word with an all-ones frame sync and non-reserved version,
\* layer, bitrate (1..14) and sampling rate (0..2) indices, whatever its
\* other bits, is valid and decodes to exactly the version, layer, bitrate
\* and sampling rate those indices denote.
C13_DecodeRoundTrip ==
  ( /\ hdrOut.decoded
    /\ FieldSync(hdrIn) = 2047
    /\ FieldVersion(hdrIn) \in {0, 2, 3}
    /\ FieldLayer(hdrIn) \in {1, 2, 3}
    /\ FieldBitrate(hdrIn) \in 1..14
    /\ FieldSamplingRate(hdrIn) \in 0..2 ) =>
    /\ hdrOut.isValid
    /\ hdrOut.version = RuleVersion(FieldVersion(hdrIn))
    /\ hdrOut.layer = RuleLayer(FieldLayer(hdrIn))
    /\ hdrOut.bitrateKbps =
         RuleBitrateKbps(FieldVersion(hdrIn), FieldLayer(hdrIn), FieldBitrate(hdrIn))
    /\ hdrOut.samplingRateHz =
         RuleSamplingRateHz(FieldVersion(hdrIn), FieldSamplingRate(hdrIn))

\* an MPEG-2.5 Layer II header with every other bit set has been decoded
C13_Witness ==
  /\ hdrOut.decoded
  /\ hdrOut.isValid
  /\ hdrOut.version = "V2_5"
  /\ hdrOut.layer = "LayerII"
  /\ hdrOut.bitrateKbps = 160
  /\ hdrIn.lo % 256 = 255


(***************************************************************************)
(* C14                                                                     *)
(***************************************************************************)
\* the divisors and factors of the frame size and duration, from the fields
RulePositive(h) ==
  LET slot == IF FieldLayer(h) = 3 THEN 4 ELSE 1
      spf  == IF FieldLayer(h) = 3 THEN 384
              ELSE IF FieldLayer(h) = 2 \/ FieldVersion(h) = 3 THEN 1152 ELSE 576
  IN  /\ (spf \div 8) \div slot > 0
      /\ RuleBitrateKbps(FieldVersion(h), FieldLayer(h), FieldBitrate(h)) > 0
      /\ RuleSamplingRateHz(FieldVersion(h), FieldSamplingRate(h)) > 0

\* C14: during a scan GetFrameBytes() and GetFrameDurationInSeconds() are
\* called only on headers that are valid, and for every valid header
\* samplesPerFrame / 8 / slotSize, the bitrate and the sampling rate are
\* strictly positive, so the three assertions of GetFrameBytes hold and
\* nothing is divided by zero.
C14_NoArithmeticOnZero ==
  /\ (inLoad /\ hdrCalls \cap {"GetFrameBytes", "GetFrameDurationInSeconds"} # {} =>
        /\ RuleValid(frameHdr)
        /\ RulePositive(frameHdr)
        /\ FrameBytesAsserts(frameHdr))
  /\ (hdrOut.decoded /\ RuleValid(hdrIn) =>
        /\ hdrOut.isValid
        /\ RulePositive(hdrIn)
        /\ hdrOut.frameBytesAsserts
        /\ hdrOut.sampleCount > 0
        /\ hdrOut.bitrateKbps > 0
        /\ hdrOut.samplingRateHz > 0)

\* the accounting loop has sized and timed a Layer II frame
C14_Witness ==
  /\ inLoad /\ pc = "Accounting"
  /\ hdrCalls = {"IsValid", "GetFrameBytes", "GetFrameDurationInSeconds"}
  /\ GetLayer(frameHdr) = "LayerII"


(***************************************************************************)
(* C15                                                                     *)
(***************************************************************************)
RuleSamplesPerFrame(h) ==
  IF FieldLayer(h) = 3 THEN 384
  ELSE IF FieldLayer(h) = 2 \/ FieldVersion(h) = 3 THEN 1152 ELSE 576

\* samplesPerFrame / samplingRate seconds, in ticks
RuleDuration(h) ==
  RuleSamplesPerFrame(h) *
    (TicksPerSecond \div RuleSamplingRateHz(FieldVersion(h), FieldSamplingRate(h)))

\* one iteration of the accounting loop at cursor position pRawBuffer
C15_Step ==
  inLoad /\ pc = "Accounting" /\ pc' = "Accounting" /\ closeTask' = closeTask =>
    IF Byte(pRawBuffer) = 255 /\ RuleValid(frameHdr')
    THEN /\ frameCount_' = frameCount_ + 1
         /\ RuleDuration(frameHdr') > 0
         /\ durationSec_' = durationSec_ + RuleDuration(frameHdr')
         /\ pRawBuffer' = pRawBuffer + RuleFrameBytes(frameHdr')
    ELSE /\ frameCount_' = frameCount_
         /\ durationSec_' = durationSec_
         /\ pRawBuffer' = pRawBuffer + 1

\* C15: the accounting loop counts any valid header, not only MPEG-1
\* Layer III: at a visited position whose byte is FF and whose header is
\* valid the frame count grows by 1, the duration by that header's
\* samplesPerFrame / samplingRate (positive) and the cursor by its
\* FrameBytes; at any other visited position the count and the duration
\* stay and the cursor moves on by 1 byte.
C15_AccountingCountsAnyValidHeader == [][C15_Step]_vars

\* the accounting loop has counted a Layer III frame and then the Layer II
\* frame that follows it
C15_Witness ==
  /\ inLoad /\ pc = "Accounting"
  /\ framesCounted = 2
  /\ GetLayer(frameHdr) = "LayerII"
  /\ pRawBuffer = 96 + 1728


(***************************************************************************)
(* C16                                                                     *)
(***************************************************************************)
\* one iteration of either loop moves the cursor forward, by 1 or by at
\* least 4; the iteration that counts the third match leaves the loop
C16_CursorStep ==
  inLoad /\ pc \in {"Searching", "Accounting"} /\ pc' = pc /\ closeTask' = closeTask =>
    \/ pRawBuffer' = pRawBuffer + 1
    \/ pRawBuffer' >= pRawBuffer + 4
    \/ pc = "Searching" /\ countFrames' = kMinMpegFrames /\ pRawBuffer' = pRawBuffer

\* the loops are left where the statement says
C16_LoopExit ==
  /\ (pc = "Searching" /\ pc' # "Searching" =>
        countFrames = kMinMpegFrames \/ pRawBuffer >= pEnd)
  /\ (pc = "Accounting" /\ pc' # "Accounting" =>
        pRawBuffer >= audioBufferSize /\ pEnd = audioBufferSize)

\* C16: the scan terminates for every finite buffer: in both phases every
\* loop iteration moves the cursor forward (by 1, or by FrameBytes, which is
\* at least 4 for a valid header), the search stops at the ceiling or at the
\* third match, the accounting at the end of the buffer, and Load returns.
C16_ScanTerminates ==
  /\ [][C16_CursorStep /\ C16_LoopExit]_vars
  /\ (inLoad ~> (~inLoad /\ retval # "none"))

\* a Load that went through both loops has returned
C16_Witness ==
  /\ ~inLoad /\ retval = "true"
  /\ pc = "Summarized"
  /\ audioBufferSize > 4


(***************************************************************************)
(* C17                                                                     *)
(***************************************************************************)
C17_Inv ==
  /\ (inLoad /\ countFrames > 0 =>
        /\ pFirstMpegFrame = matchOffsets[1]
        /\ \A i \in 1..Len(matchOffsets) : matchOffsets[i] >= pFirstMpegFrame
        /\ RuleValid(firstMpegFrameHdr_)
        /\ FieldVersion(firstMpegFrameHdr_) = 3
        /\ FieldLayer(firstMpegFrameHdr_) = 1)
  /\ (inLoad /\ pc = "Accounting" =>
        /\ pRawBuffer >= pFirstMpegFrame
        /\ pEnd = audioBufferSize
        /\ (framesCounted = 0 => pRawBuffer = pFirstMpegFrame))
  /\ (pc = "Summarized" =>
        /\ Mp3GetVersion = "V1"
        /\ Mp3GetLayer = "LayerIII"
        /\ Mp3GetSamplingRateHz \in {44100, 48000, 32000}
        /\ GetChannelCount \in {1, 2})

C17_Step ==
  inLoad /\ inLoad' =>
    /\ (countFrames = 0 /\ countFrames' = 1 =>
          pFirstMpegFrame' = pRawBuffer /\ firstMpegFrameHdr_' = frameHdr')
    /\ (countFrames > 0 =>
          pFirstMpegFrame' = pFirstMpegFrame /\ firstMpegFrameHdr_' = firstMpegFrameHdr_)
    /\ (pc = "Searching" /\ pc' = "Accounting" =>
          pRawBuffer' = pFirstMpegFrame /\ pEnd' = audioBufferSize)

\* C17: the first match of the search seeds everything: the remembered
\* header and offset are those of the lowest-offset match and later matches
\* never overwrite them; the accounting starts at that offset and covers the
\* bytes from it to the end of the buffer, none before it; so after a
\* successful Load the summary reports V1, LayerIII, a sampling rate of
\* 44100, 48000 or 32000 and 1 or 2 channels.
C17_FirstMatchSeeds == []C17_Inv /\ [][C17_Step]_vars

\* the accounting is under way from a first match that is not at offset 0
C17_Witness ==
  /\ inLoad /\ pc = "Accounting"
  /\ pFirstMpegFrame > 0
  /\ pRawBuffer > pFirstMpegFrame
  /\ countFrames = kMinMpegFrames


(***************************************************************************)
(* C18, C19                                                                *)
(***************************************************************************)
\* the frame size of the header that lies in the buffer at offset p
RuleFrameBytesAt(p) == RuleFrameBytes(HdrAt(p, <<0, 0, 0>>))

\* every header the search matched lies wholly inside audioBuffer_
MatchesInBuffer ==
  \A i \in DOMAIN matchOffsets : matchOffsets[i] + 4 <= audioBufferSize

\* C18: when Load succeeds the 3 headers the search matched form a run of
\* consistent frames: the second match starts FrameBytes(first) bytes after
\* the first and the third FrameBytes(second) bytes after the second (stated
\* for the loads whose matched headers were all read inside the buffer).
C18_MatchesFormConsistentRun ==
  inLoad /\ pc \in {"Accounting", "Summarized"} /\ MatchesInBuffer =>
    /\ Len(matchOffsets) = kMinMpegFrames
    /\ matchOffsets[2] = matchOffsets[1] + RuleFrameBytesAt(matchOffsets[1])
    /\ matchOffsets[3] = matchOffsets[2] + RuleFrameBytesAt(matchOffsets[2])

\* C19: after a successful Load on a fresh object the frame count is at
\* least the match threshold 3: the accounting counts again every header
\* the search matched (stated for the loads whose matched headers were all
\* read inside the buffer).
C19_CountAtLeastThreshold ==
  inLoad /\ pc = "Summarized" /\ loads = 1 /\ MatchesInBuffer =>
    GetFrameCount >= kMinMpegFrames


(***************************************************************************)
(* C20                                                                     *)
(***************************************************************************)
\* C20: for every audio length up to 50,000,000 ms, every sampling rate the
\* scanner can report, 1 or 2 channels and 16-bit samples, GetEstDataSize
\* never wraps: the sum and the three products equal their exact values,
\* and both assertions (sampleCount > audioMilliseconds,
\* totalBytes > channelByteCount) hold.
C20_EstDataSizeNeverOverflows ==
  pcmOut.set /\ ToNat(pcmIn.audioMilliseconds) <= 50000000 =>
    LET l == pcmOut.locals
        bytes == ToWord(2)
        channels == ToWord(IF pcmIn.channelCount_ = "Mono" THEN 1 ELSE 2)
        seconds == Div32(l.audioMilliseconds, 1000)
    IN  /\ ToNat(l.audioMilliseconds) = ToNat(pcmIn.audioMilliseconds) + 2000
        /\ MulExact(seconds, pcmIn.samplesPerSecond_) =
             [prod |-> l.sampleCount, over |-> Word(0, 0)]
        /\ MulExact(l.sampleCount, bytes) =
             [prod |-> l.channelByteCount, over |-> Word(0, 0)]
        /\ MulExact(l.channelByteCount, channels) =
             [prod |-> l.totalBytes, over |-> Word(0, 0)]
        /\ Lt32(l.audioMilliseconds, l.sampleCount)
        /\ Lt32(l.channelByteCount, l.totalBytes)
        /\ ~pcmOut.aborted

=============================================================================
